---------------------------- MODULE Spec2Model ----------------------------
(***************************************************************************)
(* A model of the pinch / pan / tap zoom engine (useGestures), its         *)
(* animation-completion aggregator (useAnimationEnd), the pan counter and  *)
(* the interaction id (usePanGestureCount, useInteractionId) and the       *)
(* layout observer (useZoomableLayout).                                    *)
(*                                                                         *)
(* Numbers are integers: scales, offsets and positions are drawn from      *)
(* small integer sets, and the container sizes are even so that            *)
(* width / 2 and width * (scale - 1) / 2 are exact.                        *)
(*                                                                         *)
(* Two execution contexts are modelled.  The gesture callbacks, the        *)
(* animation callbacks and reset / zoom / moveIntoView act on the shared   *)
(* values atomically.  Every runOnJS(f)(args) appends a call to jsQueue,   *)
(* which the Js... actions execute in issuance order.                      *)
(*                                                                         *)
(* The animation engine and the gesture recogniser are libraries outside   *)
(* the repository.  The animation engine is modelled as its frame loop:    *)
(* an assignment v.value = animation cancels the animation v is running    *)
(* and registers the new one; a timing animation whose target is already   *)
(* the value of v calls its callback with finished = TRUE at once; a frame *)
(* visits the registered animations oldest first, calls the callback of    *)
(* each cancelled one with finished = FALSE, and lets each running one     *)
(* advance or finish (callback with finished = TRUE).  All timing          *)
(* animations have the same duration, so they finish oldest first, those   *)
(* started by one handler in the same frame; a decay finishes whenever its *)
(* velocity has died out, or at the bound of its clamp it moves towards.   *)
(***************************************************************************)
EXTENDS Integers, Sequences, FiniteSets, TLC

(***************************************************************************)
(* Bounds of the model.                                                    *)
(***************************************************************************)
\* number of gesture events, taps and imperative calls
MaxOps == 3
\* the same, where only zoom(), reset() and a two-finger pan occur
MaxResetOps == 5
\* extent of the offsets (focal, translate) the model follows
MaxCoord == 4
\* number of direct aggregator / pan counter calls of the unit harness
MaxFeeds == 6
\* number of operations followed with double tap enabled
MaxViewOps == 4
\* operations of the environment on the tapped view
MaxTapOps == 4
\* number of layout events of the layout hook
MaxLayouts == 2
\* operations of the environment followed to their end under fairness
MaxLiveOps == 5

(***************************************************************************)
(* Props of the component (useGestures parameter defaults).                *)
(***************************************************************************)
minScale == 1
\* the default is 5; a smaller value of the prop keeps the scales to follow few
maxScale == 3
doubleTapScale == 3
isPanEnabled == TRUE
isPinchEnabled == TRUE

(***************************************************************************)
(* Inputs.                                                                 *)
(***************************************************************************)
\* layout events: {x, y, width, height}
Layouts == { [x |-> 0, y |-> 0, width |-> 2, height |-> 2] }
\* layout events of a view that moves and resizes; the sizes are even, so that the
\* halving of the centre is exact
LayoutEvents == [x : {0, 1}, y : {0, 3}, width : {2, 4}, height : {2, 4}]
\* positions of a pinch focal point, a tap or a zoom request
Points == { [x |-> 0, y |-> 0] }
\* positions of a touch: a corner of the view and its centre
TouchPoints == Points \cup { [x |-> 1, y |-> 1] }
\* event.scale of a pinch update
PinchScales == {0, 2, 3}
\* event.translationX / event.translationY of a pan update
Translations == { [x |-> 1, y |-> 0], [x |-> 2, y |-> -3] }
\* event.velocityX / event.velocityY at the end of a pan
Velocities == { [x |-> 1, y |-> 1], [x |-> -1, y |-> 1], [x |-> 0, y |-> 0] }
\* scale argument of zoom()
ZoomScales == {1, 2, maxScale + 1}
\* timestamps new Date().valueOf() can return
Clock == 1 .. 2

Coord == (-MaxCoord) .. MaxCoord

(***************************************************************************)
(* types.ts                                                                *)
(***************************************************************************)
ANIMATION_VALUES == {"SCALE", "FOCAL_X", "FOCAL_Y", "TRANSLATE_X", "TRANSLATE_Y"}
ZOOM_IN == "ZOOM_IN"
ZOOM_OUT == "ZOOM_OUT"

(***************************************************************************)
(* JavaScript values.                                                      *)
(***************************************************************************)
Abs(n) == IF n < 0 THEN -n ELSE n

\* Math.max / Math.min
Max(a, b) == IF a >= b THEN a ELSE b
Min(a, b) == IF a <= b THEN a ELSE b

\* utils/clamp.ts
clampInverted(value, min, max) == Max(Min(min, value), max)
clamp(value, min, max) == Min(Max(min, value), max)

\* utils/limits.ts (scale is the value of the shared scale cell)
rightOfScale(width, scale) == (width * scale) \div 2
right(width, scale) == (width * (scale - 1)) \div 2
left(width, scale) == -right(width, scale)
bottom(height, scale) == (height * (scale - 1)) \div 2
top(height, scale) == -bottom(height, scale)

VARIABLES
    \* shared values of useGestures
    val,             \* scale, focal.x, focal.y, translate.x, translate.y by ANIMATION_VALUE
    steps,           \* the animations registered with the frame loop, oldest first
    savedScale, savedFocal, savedTranslate, initialFocal,
    \* useAnimationEnd
    endValues,
    \* useInteractionId
    interactionId,
    \* refs of the JS thread
    isInteracting, isPinching, panGestureCount,
    \* runOnJS calls not yet executed
    jsQueue,
    \* useZoomableLayout
    layout,
    \* props chosen at construction
    cfg,
    \* gesture recognisers
    gesture,
    \* history
    clock,           \* latest timestamp read
    nResets,         \* number of reset() calls so far
    opsLeft,         \* number of operations the model still follows
    trace,           \* the last step: its operation and the callbacks it invoked, in order
    aggLog,          \* the onResetAnimationEnd calls executed so far
    lastReset,       \* the latest reset() call and whether anything interfered since
    interactions,    \* onInteractionStart / onInteractionEnd calls: whether they alternate
    pans,            \* pan gestures ended so far, and the pan end events onPanEnded ran for
    feed             \* unit harness: targets fed and when the aggregated callback was issued

vars == << val, steps, savedScale, savedFocal, savedTranslate, initialFocal,
           endValues, interactionId, isInteracting, isPinching, panGestureCount,
           jsQueue, layout, cfg, gesture, clock, nResets, opsLeft, trace, aggLog,
           lastReset, interactions, pans, feed >>

scale == val["SCALE"]
focal == [x |-> val["FOCAL_X"], y |-> val["FOCAL_Y"]]
translate == [x |-> val["TRANSLATE_X"], y |-> val["TRANSLATE_Y"]]
width == layout.width
height == layout.height
center == layout.center


(***************************************************************************)
(* Animations and their callbacks.                                         *)
(***************************************************************************)
\* no completion callback (the withTiming calls of zoom, moveIntoView, double tap)
NoCb == [type |-> "none", id |-> "", target |-> "", lastValue |-> 0, tag |-> 0,
         fire |-> FALSE, success |-> FALSE]
\* reset's (...args) => onAnimationEnd(interactionId, target, lastValue, ...args);
\* tag numbers the reset() call that issued it
ResetCb(id, target, lastValue, tag) ==
    [type |-> "reset", id |-> id, target |-> target, lastValue |-> lastValue,
     tag |-> tag, fire |-> FALSE, success |-> FALSE]
\* a pan end's decay callback: () => { if (fire) runOnJS(onPanEnded)(event, success) };
\* tag numbers the pan end event
DecayCb(target, fire, success, event) ==
    [type |-> "decay", id |-> "", target |-> target, lastValue |-> 0, tag |-> event,
     fire |-> fire, success |-> success]

withTiming(toValue, cb) ==
    [kind |-> "timing", to |-> toValue, velocity |-> 0, lo |-> 0, hi |-> 0, cb |-> cb]
withDecay(velocity, lo, hi, cb) ==
    [kind |-> "decay", to |-> 0, velocity |-> velocity, lo |-> lo, hi |-> hi, cb |-> cb]

\* a call handed to the JS thread
JsCall(fn, success, zoomType, completed, id, values) ==
    [fn |-> fn, success |-> success, zoomType |-> zoomType, completed |-> completed,
     id |-> id, values |-> values]
NoValues == [t \in {} |-> 0]
Call(fn) == JsCall(fn, FALSE, "", FALSE, "", NoValues)
CallSuccess(fn, success) == JsCall(fn, success, "", FALSE, "", NoValues)
CallZoom(fn, zoomType) == JsCall(fn, FALSE, zoomType, FALSE, "", NoValues)
\* runOnJS(onPanEnded)(event, success): id names the event; completed keeps, for the
\* history, whether the call comes from a decay that was cut short (FALSE)
CallPanEnded(event, success, finished) ==
    JsCall("onPanEnded", success, "", finished, ToString(event), NoValues)

(***************************************************************************)
(* The state the handlers work on, as one record, so that a handler is a   *)
(* function from state to state and handlers compose.  calls collects the  *)
(* callbacks and functions the step invokes, in order.                     *)
(***************************************************************************)
\* the timing animations a handler starts share one start time: batch numbers them
NextBatch ==
    LET used == {steps[i].batch : i \in DOMAIN steps}
    IN  IF used = {} THEN 1 ELSE 1 + CHOOSE b \in used : \A c \in used : c <= b

Cur == [val |-> val, steps |-> steps, batch |-> NextBatch,
        savedScale |-> savedScale, savedFocal |-> savedFocal,
        savedTranslate |-> savedTranslate, initialFocal |-> initialFocal,
        endValues |-> endValues, jsQueue |-> jsQueue, nResets |-> nResets,
        interactionId |-> interactionId, clock |-> clock,
        isInteracting |-> isInteracting, isPinching |-> isPinching,
        panGestureCount |-> panGestureCount,
        event |-> pans.ended + 1,
        calls |-> << >>, passed |-> << >>]

Apply(S) ==
    /\ val' = S.val
    /\ steps' = S.steps
    /\ savedScale' = S.savedScale
    /\ savedFocal' = S.savedFocal
    /\ savedTranslate' = S.savedTranslate
    /\ initialFocal' = S.initialFocal
    /\ endValues' = S.endValues
    /\ jsQueue' = S.jsQueue
    /\ nResets' = S.nResets
    /\ interactionId' = S.interactionId
    /\ clock' = S.clock
    /\ isInteracting' = S.isInteracting
    /\ isPinching' = S.isPinching
    /\ panGestureCount' = S.panGestureCount

\* runOnJS(fn)(args)
runOnJS(S, call) == [S EXCEPT !.jsQueue = Append(@, call)]
\* a callback of the host application, or a function of the engine, is invoked
Invoke(S, name) == [S EXCEPT !.calls = Append(@, name)]
\* a callback of the host application is invoked with the success flag of the gesture
InvokeWith(S, name, success) == [Invoke(S, name) EXCEPT !.passed = Append(@, success)]

(***************************************************************************)
(* useAnimationEnd                                                         *)
(***************************************************************************)
\* variant: a record counts as complete with four targets
isAnimationCompleteAtFour(ev) == Cardinality(DOMAIN ev) >= 4

isAnimationComplete(ev) == \A item \in ANIMATION_VALUES : item \in DOMAIN ev

\* variant: each completion starts a record of its own
RecordEndAlone(S, interactionId_, value, lastValue, finished, current, src) ==
    [t \in {value} |-> [lastValue |-> lastValue, finished |-> finished,
                        current |-> current, src |-> src]]
\* the record under interactionId after currentEndValues[value] = {...};
\* src is the reset() call the completion comes from (0: none)
RecordEnd(S, interactionId_, value, lastValue, finished, current, src) ==
    LET old == IF interactionId_ \in DOMAIN S.endValues
               THEN S.endValues[interactionId_] ELSE NoValues
        entry == [lastValue |-> lastValue, finished |-> finished,
                  current |-> current, src |-> src]
    IN  [t \in DOMAIN old \cup {value} |-> IF t = value THEN entry ELSE old[t]]

\* the optional argument finished?: boolean, as the set of its values: Some(b) when
\* it is passed, Undefined when it is absent; Truthy is JavaScript's !!finished
Some(b) == {b}
Undefined == {}
Truthy(o) == TRUE \in o

\* variant: only an explicit finished = false makes the reset incomplete
CompletedUnlessFalse(ev) == ~ \E t \in DOMAIN ev : FALSE \in ev[t].finished
\* !Object.values(currentEndValues).some((item) => !item.finished)
Completed(ev) == ~ \E t \in DOMAIN ev : ~Truthy(ev[t].finished)

onAnimationEnd(S, interactionId_, value, lastValue, finished, current, src) ==
    IF cfg.onResetAnimationEnd
    THEN LET currentEndValues ==
                 RecordEnd(S, interactionId_, value, lastValue, finished, current, src)
         IN  IF isAnimationComplete(currentEndValues)
             THEN [runOnJS(S, JsCall("onResetAnimationEnd", FALSE, "",
                                     Completed(currentEndValues), interactionId_,
                                     currentEndValues))
                     EXCEPT !.endValues =
                        [i \in DOMAIN S.endValues \ {interactionId_} |-> S.endValues[i]]]
             ELSE [S EXCEPT !.endValues =
                        [i \in DOMAIN S.endValues \cup {interactionId_} |->
                            IF i = interactionId_ THEN currentEndValues
                            ELSE S.endValues[i]]]
    ELSE S

(***************************************************************************)
(* The animation engine                                                    *)
(***************************************************************************)
\* the callback of an animation is called with (finished, current)
RunCallback(S, cb, finished, current) ==
    CASE cb.type = "reset" ->
            onAnimationEnd(S, cb.id, cb.target, cb.lastValue, Some(finished), current,
                           cb.tag)
      [] cb.type = "decay" ->
            IF cb.fire THEN runOnJS(S, CallPanEnded(cb.tag, cb.success, finished)) ELSE S
      [] OTHER -> S

\* a registered animation of the shared value v: running (live) or cancelled, and
\* then current is the value it had reached
Registered(v, a, batch) == [v |-> v, live |-> TRUE, anim |-> a, current |-> 0, batch |-> batch]

\* an assignment to v cancels the animation v is running; a cancelled animation
\* stays registered until the next frame calls its callback, if it has one
CancelAnimation(S, v) ==
    LET marked == [i \in DOMAIN S.steps |->
                      IF S.steps[i].v = v /\ S.steps[i].live
                      THEN [S.steps[i] EXCEPT !.live = FALSE, !.current = S.val[v]]
                      ELSE S.steps[i]]
        Keep(e) == e.live \/ e.anim.cb.type # "none"
    IN  [S EXCEPT !.steps = SelectSeq(marked, Keep)]

\* v.value = x
SetValue(S, v, x) == [CancelAnimation(S, v) EXCEPT !.val[v] = x]

\* v.value = withTiming(...) or withDecay(...)
SetAnimation(S, v, a) ==
    LET S0 == CancelAnimation(S, v)
    IN  IF a.kind = "timing" /\ S0.val[v] = a.to
        THEN RunCallback(S0, a.cb, TRUE, a.to)
        ELSE [S0 EXCEPT !.steps = Append(@, Registered(v, a, S.batch))]

\* where a decay released at x with the given velocity comes to rest: it travels in
\* the direction of the velocity, some way (far) or hardly at all, and stops at the
\* bound it is moving towards once it is at or beyond it; a bound behind it is not
\* enforced, and with velocity 0 it does not move
DecayRest(x, velocity, lo, hi, far) ==
    LET moved == IF far THEN x + velocity ELSE x
    IN  IF velocity < 0 /\ moved <= lo THEN lo
        ELSE IF velocity > 0 /\ moved >= hi THEN hi
        ELSE moved

\* one registered animation in a frame: a cancelled one calls back with FALSE, a
\* running one finishes (calls back with TRUE), advances by one unit, or holds
FrameStep(S, e, finishes, advances, far) ==
    IF ~e.live
    THEN RunCallback(S, e.anim.cb, FALSE, e.current)
    ELSE IF finishes
    THEN LET x == IF e.anim.kind = "timing" THEN e.anim.to
                  ELSE DecayRest(S.val[e.v], e.anim.velocity, e.anim.lo, e.anim.hi, far)
         IN  RunCallback([S EXCEPT !.val[e.v] = x], e.anim.cb, TRUE, x)
    ELSE IF advances /\ e.anim.kind = "timing" /\ Abs(e.anim.to - S.val[e.v]) > 1
    THEN [S EXCEPT !.val[e.v] = IF e.anim.to > @ THEN @ + 1 ELSE @ - 1]
    ELSE S

\* the batches of the running timing animations
LiveTimings(registered) ==
    {registered[j].batch : j \in {i \in DOMAIN registered :
                                     registered[i].live /\ registered[i].anim.kind = "timing"}}

\* the values that are decaying
LiveDecays(registered) ==
    {registered[j].v : j \in {i \in DOMAIN registered :
                                 registered[i].live /\ registered[i].anim.kind = "decay"}}

\* whether a registered animation finishes in a frame in which the timing animations
\* started up to batch k and the decays of the values in dec finish: the timing
\* animations have one duration, so they finish in the order they started
Finishes(e, k, dec) ==
    e.live /\ IF e.anim.kind = "timing" THEN e.batch <= k ELSE e.v \in dec

RECURSIVE RunFrame(_, _, _, _, _, _)
RunFrame(S, i, k, dec, advances, far) ==
    IF i > Len(S.steps) THEN S
    ELSE RunFrame(FrameStep(S, S.steps[i], Finishes(S.steps[i], k, dec), advances, far),
                  i + 1, k, dec, advances, far)

\* the state after a frame: the animations that have not finished stay registered
Frame(S, k, dec, advances, far) ==
    LET stays == [i \in DOMAIN S.steps |->
                    S.steps[i].live /\ ~Finishes(S.steps[i], k, dec)]
        S1 == RunFrame(S, 1, k, dec, advances, far)
        Rest[i \in 0 .. Len(S.steps)] ==
            IF i = 0 THEN << >>
            ELSE IF stays[i] THEN Append(Rest[i - 1], S.steps[i]) ELSE Rest[i - 1]
    IN  [S1 EXCEPT !.steps = Rest[Len(S.steps)]]

(***************************************************************************)
(* usePanGestureCount, useInteractionId                                    *)
(***************************************************************************)
isPanning(S) == S.panGestureCount > 0
startPan(S) == [S EXCEPT !.panGestureCount = @ + 1]
\* variant: endPan without the count > 0 guard
endPanUnguarded(S) == [S EXCEPT !.panGestureCount = @ - 1]
endPan(S) == IF S.panGestureCount > 0 THEN [S EXCEPT !.panGestureCount = @ - 1] ELSE S

\* variant: the id the hook was created with
getInteractionIdInitial(S) == ""

getInteractionId(S) == S.interactionId
\* interactionId.value = `${new Date().valueOf()}`, the clock reading now
updateInteractionId(S, now) ==
    [S EXCEPT !.interactionId = ToString(now), !.clock = now,
              !.calls = Append(@, "updateInteractionId")]

(***************************************************************************)
(* useGestures: reset, moveIntoView, zoom                                  *)
(***************************************************************************)
\* one "lastValue = v.value; v.value = withTiming(toValue, cfg, cb)" of reset
ResetValue(S, id, v) ==
    SetAnimation(S, v, withTiming(IF v = "SCALE" THEN 1 ELSE 0,
                                  ResetCb(id, v, S.val[v], S.nResets + 1)))

reset(S) ==
    LET id == getInteractionId(S)
        S1 == ResetValue([S EXCEPT !.savedScale = 1, !.calls = Append(@, "reset")],
                         id, "SCALE")
        S2 == [S1 EXCEPT !.initialFocal = [x |-> 0, y |-> 0],
                         !.savedFocal = [x |-> 0, y |-> 0]]
        S3 == ResetValue(ResetValue(S2, id, "FOCAL_X"), id, "FOCAL_Y")
        S4 == [S3 EXCEPT !.savedTranslate = [x |-> 0, y |-> 0]]
        S5 == ResetValue(ResetValue(S4, id, "TRANSLATE_X"), id, "TRANSLATE_Y")
    IN  [S5 EXCEPT !.nResets = @ + 1]

\* variant: the focal offset is left where it is
MoveAxisKeepingFocal(S, size, tv, fv) ==
    LET limit == right(size, S.val["SCALE"])
        total == S.val[tv] + S.val[fv]
    IN  IF total > limit
        THEN SetAnimation(S, tv, withTiming(limit, NoCb))
        ELSE IF total < -limit
        THEN SetAnimation(S, tv, withTiming(-limit, NoCb))
        ELSE S

\* one axis of moveIntoView
MoveAxis(S, size, tv, fv) ==
    LET limit == right(size, S.val["SCALE"])
        total == S.val[tv] + S.val[fv]
    IN  IF total > limit
        THEN SetAnimation(SetAnimation(S, tv, withTiming(limit, NoCb)),
                          fv, withTiming(0, NoCb))
        ELSE IF total < -limit
        THEN SetAnimation(SetAnimation(S, tv, withTiming(-limit, NoCb)),
                          fv, withTiming(0, NoCb))
        ELSE S

moveIntoView(S) ==
    IF S.val["SCALE"] > 1
    THEN MoveAxis(MoveAxis(Invoke(S, "moveIntoView"), width, "TRANSLATE_X", "FOCAL_X"),
                  height, "TRANSLATE_Y", "FOCAL_Y")
    ELSE reset(Invoke(S, "moveIntoView"))

\* the focal offset that brings the point p (one coordinate) to the centre at scale s
FocalFor(c, p, s) == (c - p) * (s - 1)

\* variant: the focal target is taken from the point towards the centre
zoomFocalFromPoint(S, event) ==
    IF event.scale > 1
    THEN LET S1 == runOnJS(S, CallZoom("onProgrammaticZoom", ZOOM_IN))
             S2 == SetAnimation(S1, "SCALE", withTiming(event.scale, NoCb))
             S3 == SetAnimation(S2, "FOCAL_X",
                       withTiming(FocalFor(event.x, center.x, event.scale), NoCb))
         IN  SetAnimation(S3, "FOCAL_Y",
                       withTiming(FocalFor(event.y, center.y, event.scale), NoCb))
    ELSE reset(runOnJS(S, CallZoom("onProgrammaticZoom", ZOOM_OUT)))

zoom(S, event) ==
    IF event.scale > 1
    THEN LET S1 == runOnJS(S, CallZoom("onProgrammaticZoom", ZOOM_IN))
             S2 == SetAnimation(S1, "SCALE", withTiming(event.scale, NoCb))
             S3 == SetAnimation(S2, "FOCAL_X",
                       withTiming(FocalFor(center.x, event.x, event.scale), NoCb))
         IN  SetAnimation(S3, "FOCAL_Y",
                       withTiming(FocalFor(center.y, event.y, event.scale), NoCb))
    ELSE reset(runOnJS(S, CallZoom("onProgrammaticZoom", ZOOM_OUT)))

\* variant: the visible area as a signed offset
getInfoSigned(S) ==
    LET totalTranslateX == S.val["TRANSLATE_X"] + S.val["FOCAL_X"]
        totalTranslateY == S.val["TRANSLATE_Y"] + S.val["FOCAL_Y"]
    IN  [container |-> [width |-> width, height |-> height, center |-> center],
         scaledSize |-> [width |-> width * S.val["SCALE"],
                         height |-> height * S.val["SCALE"]],
         visibleArea |-> [x |-> totalTranslateX - (width * (S.val["SCALE"] - 1)) \div 2,
                          y |-> totalTranslateY - (height * (S.val["SCALE"] - 1)) \div 2,
                          width |-> width, height |-> height],
         transformations |-> [translateX |-> totalTranslateX,
                              translateY |-> totalTranslateY,
                              scale |-> S.val["SCALE"]]]

\* the value getInfo() returns
getInfo(S) ==
    LET totalTranslateX == S.val["TRANSLATE_X"] + S.val["FOCAL_X"]
        totalTranslateY == S.val["TRANSLATE_Y"] + S.val["FOCAL_Y"]
    IN  [container |-> [width |-> width, height |-> height, center |-> center],
         scaledSize |-> [width |-> width * S.val["SCALE"],
                         height |-> height * S.val["SCALE"]],
         visibleArea |-> [x |-> Abs(totalTranslateX -
                                    (width * (S.val["SCALE"] - 1)) \div 2),
                          y |-> Abs(totalTranslateY -
                                    (height * (S.val["SCALE"] - 1)) \div 2),
                          width |-> width, height |-> height],
         transformations |-> [translateX |-> totalTranslateX,
                              translateY |-> totalTranslateY,
                              scale |-> S.val["SCALE"]]]

(***************************************************************************)
(* useGestures: handlers of the JS thread                                  *)
(***************************************************************************)
\* variant: the interaction start is not guarded by isInteracting
onInteractionStartedUnguarded(S, now) ==
    updateInteractionId(
        Invoke([S EXCEPT !.isInteracting = TRUE], "onInteractionStart"), now)

\* variant: the interaction start does not set isInteracting
onInteractionStartedFlagUnset(S, now) ==
    IF ~S.isInteracting
    THEN updateInteractionId(Invoke(S, "onInteractionStart"), now)
    ELSE S

\* variant: the session id is assigned before onInteractionStart is invoked
onInteractionStartedIdFirst(S, now) ==
    IF ~S.isInteracting
    THEN Invoke(updateInteractionId([S EXCEPT !.isInteracting = TRUE], now),
                "onInteractionStart")
    ELSE S

onInteractionStarted(S, now) ==
    IF ~S.isInteracting
    THEN updateInteractionId(
             Invoke([S EXCEPT !.isInteracting = TRUE], "onInteractionStart"), now)
    ELSE S

\* variant: the interaction end does not wait for the pans to end
onInteractionEndedIgnoringPans(S) ==
    IF S.isInteracting /\ ~S.isPinching
    THEN Invoke([(IF cfg.isDoubleTapEnabled THEN moveIntoView(S) ELSE reset(S))
                    EXCEPT !.isInteracting = FALSE],
                "onInteractionEnd")
    ELSE S

\* variant: the view is moved into sight whatever the double tap flag is
onInteractionEndedMovingIntoView(S) ==
    IF S.isInteracting /\ ~S.isPinching /\ ~isPanning(S)
    THEN Invoke([moveIntoView(S) EXCEPT !.isInteracting = FALSE], "onInteractionEnd")
    ELSE S

onInteractionEnded(S) ==
    IF S.isInteracting /\ ~S.isPinching /\ ~isPanning(S)
    THEN Invoke([(IF cfg.isDoubleTapEnabled THEN moveIntoView(S) ELSE reset(S))
                    EXCEPT !.isInteracting = FALSE],
                "onInteractionEnd")
    ELSE S

onPinchStarted(S, now) ==
    Invoke([onInteractionStarted(S, now) EXCEPT !.isPinching = TRUE], "onPinchStart")

\* variant: a pinch that was cancelled does not end the interaction
onPinchEndedOnSuccess(S, success) ==
    LET S1 == InvokeWith([S EXCEPT !.isPinching = FALSE], "onPinchEnd", success)
    IN  IF success THEN onInteractionEnded(S1) ELSE S1

onPinchEnded(S, success) ==
    onInteractionEnded(InvokeWith([S EXCEPT !.isPinching = FALSE], "onPinchEnd", success))

onPanStarted(S, now) ==
    Invoke(startPan(onInteractionStarted(S, now)), "onPanStart")

\* variant: the end of a pan does not evaluate the end of the interaction
onPanEndedCountOnly(S, success) == InvokeWith(endPan(S), "onPanEnd", success)

onPanEnded(S, success) ==
    onInteractionEnded(InvokeWith(endPan(S), "onPanEnd", success))

(***************************************************************************)
(* useGestures: gesture callbacks                                          *)
(***************************************************************************)
\* panWhilePinchingGesture / panOnlyGesture .onStart
panOnStart(S) ==
    [runOnJS(S, Call("onPanStarted"))
        EXCEPT !.savedTranslate = [x |-> S.val["TRANSLATE_X"], y |-> S.val["TRANSLATE_Y"]]]

\* .onUpdate, event.translationX / Y = t.x / t.y
\* variant: the translation is added to the current position
panOnUpdateFromCurrent(S, t) ==
    SetValue(SetValue(S, "TRANSLATE_X", S.val["TRANSLATE_X"] + t.x),
             "TRANSLATE_Y", S.val["TRANSLATE_Y"] + t.y)

panOnUpdate(S, t) ==
    SetValue(SetValue(S, "TRANSLATE_X", S.savedTranslate.x + t.x),
             "TRANSLATE_Y", S.savedTranslate.y + t.y)

\* .onEnd, event.velocityX / Y = v.x / v.y
\* variant: the horizontal decay reports the end only for the larger velocity
panOnEndStrict(S, v, success) ==
    LET rightLimit == right(width, S.val["SCALE"])
        leftLimit == -rightLimit
        bottomLimit == bottom(height, S.val["SCALE"])
        topLimit == -bottomLimit
    IN  IF S.val["SCALE"] > 1 /\ cfg.isDoubleTapEnabled
        THEN LET S1 == SetAnimation(S, "TRANSLATE_X",
                           withDecay(v.x, leftLimit - S.val["FOCAL_X"],
                                     rightLimit - S.val["FOCAL_X"],
                                     DecayCb("TRANSLATE_X", v.x > v.y, success,
                                             S.event)))
             IN  SetAnimation(S1, "TRANSLATE_Y",
                           withDecay(v.y, topLimit - S1.val["FOCAL_Y"],
                                     bottomLimit - S1.val["FOCAL_Y"],
                                     DecayCb("TRANSLATE_Y", v.y > v.x, success,
                                             S.event)))
        ELSE runOnJS(S, CallPanEnded(S.event, success, TRUE))

panOnEnd(S, v, success) ==
    LET rightLimit == right(width, S.val["SCALE"])
        leftLimit == -rightLimit
        bottomLimit == bottom(height, S.val["SCALE"])
        topLimit == -bottomLimit
    IN  IF S.val["SCALE"] > 1 /\ cfg.isDoubleTapEnabled
        THEN LET S1 == SetAnimation(S, "TRANSLATE_X",
                           withDecay(v.x, leftLimit - S.val["FOCAL_X"],
                                     rightLimit - S.val["FOCAL_X"],
                                     DecayCb("TRANSLATE_X", v.x >= v.y, success,
                                             S.event)))
             IN  SetAnimation(S1, "TRANSLATE_Y",
                           withDecay(v.y, topLimit - S1.val["FOCAL_Y"],
                                     bottomLimit - S1.val["FOCAL_Y"],
                                     DecayCb("TRANSLATE_Y", v.y > v.x, success,
                                             S.event)))
        ELSE runOnJS(S, CallPanEnded(S.event, success, TRUE))

\* panOnlyGesture.onTouchesDown: whether manager.fail() is called
\* variant: the recogniser fails below scale 1 only
panOnlyFailsBelowOne(S) == S.val["SCALE"] < 1
panOnlyFails(S) == S.val["SCALE"] <= 1

\* pinchGesture.onStart, event.focalX / Y = p.x / p.y
pinchOnStart(S, p) ==
    [runOnJS(S, Call("onPinchStarted"))
        EXCEPT !.savedScale = S.val["SCALE"],
               !.savedFocal = [x |-> S.val["FOCAL_X"], y |-> S.val["FOCAL_Y"]],
               !.initialFocal = [x |-> p.x, y |-> p.y]]

\* pinchGesture.onUpdate, event.scale = e
\* variant: the focal offset follows the unclamped scale
pinchOnUpdateUnclampedFocal(S, e) ==
    LET S1 == SetValue(S, "SCALE", clamp(S.savedScale * e, minScale, maxScale))
        S2 == SetValue(S1, "FOCAL_X", S1.savedFocal.x +
                  (center.x - S1.initialFocal.x) * (S1.savedScale * e - S1.savedScale))
    IN  SetValue(S2, "FOCAL_Y", S2.savedFocal.y +
                  (center.y - S2.initialFocal.y) * (S2.savedScale * e - S2.savedScale))

pinchOnUpdate(S, e) ==
    LET S1 == SetValue(S, "SCALE", clamp(S.savedScale * e, minScale, maxScale))
        S2 == SetValue(S1, "FOCAL_X",
                  S1.savedFocal.x
                    + (center.x - S1.initialFocal.x) * (S1.val["SCALE"] - S1.savedScale))
    IN  SetValue(S2, "FOCAL_Y",
                  S2.savedFocal.y
                    + (center.y - S2.initialFocal.y) * (S2.val["SCALE"] - S2.savedScale))

pinchOnEnd(S, success) == runOnJS(S, CallSuccess("onPinchEnded", success))

\* doubleTapGesture.onStart, event.x / y = p.x / p.y
\* variant: a double tap zooms in whenever the scale is below doubleTapScale
doubleTapZoomsInBelowTarget(S, p) ==
    IF S.val["SCALE"] < doubleTapScale
    THEN LET S1 == runOnJS(S, CallZoom("onDoubleTap", ZOOM_IN))
             S2 == SetAnimation(S1, "SCALE", withTiming(doubleTapScale, NoCb))
             S3 == SetAnimation(S2, "FOCAL_X",
                       withTiming(FocalFor(center.x, p.x, doubleTapScale), NoCb))
         IN  SetAnimation(S3, "FOCAL_Y",
                       withTiming(FocalFor(center.y, p.y, doubleTapScale), NoCb))
    ELSE reset(runOnJS(S, CallZoom("onDoubleTap", ZOOM_OUT)))

doubleTapOnStart(S, p) ==
    IF S.val["SCALE"] = 1
    THEN LET S1 == runOnJS(S, CallZoom("onDoubleTap", ZOOM_IN))
             S2 == SetAnimation(S1, "SCALE", withTiming(doubleTapScale, NoCb))
             S3 == SetAnimation(S2, "FOCAL_X",
                       withTiming(FocalFor(center.x, p.x, doubleTapScale), NoCb))
         IN  SetAnimation(S3, "FOCAL_Y",
                       withTiming(FocalFor(center.y, p.y, doubleTapScale), NoCb))
    ELSE reset(runOnJS(S, CallZoom("onDoubleTap", ZOOM_OUT)))

singleTapOnStart(S) == runOnJS(S, Call("onSingleTap"))

\* useZoomableLayout.onZoomableLayout
\* variant: the centre is taken relative to the view itself
LayoutOfOrigin(e) ==
    [x |-> e.x, y |-> e.y, width |-> e.width, height |-> e.height,
     center |-> [x |-> e.width \div 2, y |-> e.height \div 2]]

LayoutOf(e) ==
    [x |-> e.x, y |-> e.y, width |-> e.width, height |-> e.height,
     center |-> [x |-> e.x + e.width \div 2, y |-> e.y + e.height \div 2]]

(***************************************************************************)
(* History kept for the properties.                                        *)
(***************************************************************************)
\* reset() was called on the way to S1
DidReset(S1) == \E i \in DOMAIN S1.calls : S1.calls[i] = "reset"

\* completions of earlier reset() calls under this id are still to be aggregated
ResetOutstanding(id) ==
    \/ id \in DOMAIN endValues
    \/ \E i \in DOMAIN steps : steps[i].anim.cb.type = "reset" /\ steps[i].anim.cb.id = id

\* the values the reset() call numbered tag is still animating
Resetting(tag) ==
    {steps[i].v : i \in {j \in DOMAIN steps :
                            /\ steps[j].live
                            /\ steps[j].anim.cb.type = "reset"
                            /\ steps[j].anim.cb.tag = tag}}

\* second: this reset() follows the previous one directly, under the same id, while
\* all five animations of the previous one are running
NextLastReset(S1) ==
    IF DidReset(S1)
    THEN [tag |-> S1.nResets, id |-> S1.interactionId, clean |-> TRUE,
          overlap |-> ResetOutstanding(S1.interactionId),
          second |-> /\ lastReset.tag > 0 /\ lastReset.clean
                     /\ lastReset.id = S1.interactionId
                     /\ Resetting(lastReset.tag) = ANIMATION_VALUES]
    ELSE IF S1.val # val \/ S1.steps # steps
    THEN [lastReset EXCEPT !.clean = FALSE]
    ELSE lastReset

Count(calls, name) == Cardinality({i \in DOMAIN calls : calls[i] = name})

\* the interaction callbacks among calls, in order, added to the history h
RECURSIVE Interactions(_, _)
Interactions(h, calls) ==
    IF calls = << >> THEN h
    ELSE Interactions(
             CASE Head(calls) = "onInteractionStart" ->
                    [open |-> TRUE, alternate |-> h.alternate /\ ~h.open,
                     starts |-> h.starts + 1]
               [] Head(calls) = "onInteractionEnd" ->
                    [open |-> FALSE, alternate |-> h.alternate /\ h.open,
                     starts |-> h.starts]
               [] OTHER -> h,
             Tail(calls))

\* the pan history after the step op: a pan end is one more event, and onPanEnded on
\* the JS thread has run for the event it was called with
NextPans(op, S1) ==
    IF op \in {"panWhilePinchingEnd", "panOnlyEnd"}
    THEN [pans EXCEPT !.ended = @ + 1]
    ELSE IF op = "onPanEnded"
    THEN [pans EXCEPT !.done = Append(@, [event |-> Head(jsQueue).id,
                                          finished |-> Head(jsQueue).completed])]
    ELSE pans

\* a step of the gesture context or of the JS thread, named op, leading to S1
Commit(op, S1) ==
    /\ Apply(S1)
    /\ trace' = IF S1.passed = << >>
                 THEN [op |-> op, calls |-> S1.calls]
                 ELSE [op |-> op, calls |-> S1.calls, passed |-> S1.passed]
    /\ lastReset' = NextLastReset(S1)
    /\ interactions' = Interactions(interactions, S1.calls)
    /\ pans' = NextPans(op, S1)
    /\ UNCHANGED << cfg, feed, layout >>

\* an event of the environment: it counts towards MaxOps
Event(op, S1) ==
    /\ opsLeft > 0
    /\ opsLeft' = opsLeft - 1
    /\ Commit(op, S1)
    /\ UNCHANGED aggLog

\* Gesture.Race(pinchPanGestures, panOnlyGesture, tapGestures) or pinchPanGestures
\* variant: the three are raced whatever the tap flags are
RacedAlways == TRUE
Raced == cfg.isDoubleTapEnabled \/ cfg.isSingleTapEnabled
\* the view receives touches once it has been laid out
LaidOut == layout.width > 0

InCoord(S) == \A v \in ANIMATION_VALUES \ {"SCALE"} : S.val[v] \in Coord

(***************************************************************************)
(* Actions: layout and the imperative handle                               *)
(***************************************************************************)
OnZoomableLayout ==
    \E e \in Layouts :
        /\ trace.op = "init" /\ layout.width = 0
        /\ layout' = LayoutOf(e)
        /\ trace' = [op |-> "onZoomableLayout", calls |-> <<"onLayout">>]
        /\ UNCHANGED << val, steps, savedScale, savedFocal, savedTranslate,
                        initialFocal, endValues, interactionId, isInteracting,
                        isPinching, panGestureCount, jsQueue, cfg, gesture, clock,
                        nResets, opsLeft, aggLog, lastReset, interactions, pans, feed >>

HandleReset ==
    /\ Event("reset", reset(Cur))
    /\ UNCHANGED gesture

HandleZoom ==
    \E z \in ZoomScales, p \in Points :
        /\ Event("zoom", zoom(Cur, [scale |-> z, x |-> p.x, y |-> p.y]))
        /\ UNCHANGED gesture

\* ref.getInfo(): the value returned is kept in trace; nothing is assigned
HandleGetInfo ==
    /\ trace.op # "getInfo"
    /\ trace' = [op |-> "getInfo", calls |-> Cur.calls, out |-> getInfo(Cur)]
    /\ UNCHANGED << val, steps, savedScale, savedFocal, savedTranslate, initialFocal,
                    endValues, interactionId, isInteracting, isPinching,
                    panGestureCount, jsQueue, layout, cfg, gesture, clock, nResets,
                    opsLeft, aggLog, lastReset, interactions, pans, feed >>

(***************************************************************************)
(* Actions: gesture recognisers                                            *)
(***************************************************************************)
PinchStart ==
    \E p \in TouchPoints :
        /\ LaidOut /\ isPinchEnabled /\ ~gesture.pinch /\ gesture.panOnly # "active"
        /\ Event("pinchStart", pinchOnStart(Cur, p))
        /\ gesture' = [gesture EXCEPT !.pinch = TRUE, !.panOnly = "idle"]

PinchUpdate ==
    \E e \in PinchScales :
        /\ gesture.pinch
        /\ InCoord(pinchOnUpdate(Cur, e))
        /\ Event("pinchUpdate", pinchOnUpdate(Cur, e))
        /\ UNCHANGED gesture

PinchEnd ==
    \E success \in BOOLEAN :
        /\ gesture.pinch
        /\ Event("pinchEnd", pinchOnEnd(Cur, success))
        /\ gesture' = [gesture EXCEPT !.pinch = FALSE]

PanWhilePinchingStart ==
    /\ LaidOut /\ isPanEnabled /\ ~gesture.pan /\ gesture.panOnly # "active"
    /\ Event("panWhilePinchingStart", panOnStart(Cur))
    /\ gesture' = [gesture EXCEPT !.pan = TRUE, !.panOnly = "idle"]

PanWhilePinchingUpdate ==
    \E t \in Translations :
        /\ gesture.pan
        /\ InCoord(panOnUpdate(Cur, t))
        /\ Event("panWhilePinchingUpdate", panOnUpdate(Cur, t))
        /\ UNCHANGED gesture

PanWhilePinchingEnd ==
    \E v \in Velocities, success \in BOOLEAN :
        /\ gesture.pan
        /\ Event("panWhilePinchingEnd", panOnEnd(Cur, v, success))
        /\ gesture' = [gesture EXCEPT !.pan = FALSE]

\* a single contact goes down: the recogniser fails at once or waits for movement
PanOnlyTouchesDown ==
    /\ LaidOut /\ isPanEnabled /\ Raced
    /\ gesture = [pinch |-> FALSE, pan |-> FALSE, panOnly |-> "idle"]
    /\ opsLeft > 0
    /\ gesture' = [gesture EXCEPT !.panOnly = IF panOnlyFails(Cur) THEN "idle" ELSE "began"]
    /\ trace' = [op |-> "panOnlyTouchesDown", calls |-> << >>]
    /\ UNCHANGED << val, steps, savedScale, savedFocal, savedTranslate,
                    initialFocal, endValues, interactionId, isInteracting, isPinching,
                    panGestureCount, jsQueue, layout, cfg, clock, nResets, opsLeft, aggLog,
                    lastReset, interactions, pans, feed >>

PanOnlyStart ==
    /\ gesture.panOnly = "began"
    /\ Event("panOnlyStart", panOnStart(Cur))
    /\ gesture' = [gesture EXCEPT !.panOnly = "active"]

PanOnlyUpdate ==
    \E t \in Translations :
        /\ gesture.panOnly = "active"
        /\ InCoord(panOnUpdate(Cur, t))
        /\ Event("panOnlyUpdate", panOnUpdate(Cur, t))
        /\ UNCHANGED gesture

PanOnlyEnd ==
    \E v \in Velocities, success \in BOOLEAN :
        /\ gesture.panOnly = "active"
        /\ Event("panOnlyEnd", panOnEnd(Cur, v, success))
        /\ gesture' = [gesture EXCEPT !.panOnly = "idle"]

\* the contact is lifted before the recogniser activates: no callback
PanOnlyRelease ==
    /\ gesture.panOnly = "began"
    /\ gesture' = [gesture EXCEPT !.panOnly = "idle"]
    /\ trace' = [op |-> "panOnlyRelease", calls |-> << >>]
    /\ UNCHANGED << val, steps, savedScale, savedFocal, savedTranslate,
                    initialFocal, endValues, interactionId, isInteracting, isPinching,
                    panGestureCount, jsQueue, layout, cfg, clock, nResets, opsLeft, aggLog,
                    lastReset, interactions, pans, feed >>

\* a single contact is dragged over a view composed of pinchPanGestures alone: the pinch
\* and the pan with minPointers(2) do not recognise it and no callback runs
SingleContactDrag ==
    /\ LaidOut /\ ~Raced
    /\ gesture = [pinch |-> FALSE, pan |-> FALSE, panOnly |-> "idle"]
    /\ trace.op # "singleContactDrag"
    /\ trace' = [op |-> "singleContactDrag", calls |-> << >>]
    /\ UNCHANGED << val, steps, savedScale, savedFocal, savedTranslate,
                    initialFocal, endValues, interactionId, isInteracting, isPinching,
                    panGestureCount, jsQueue, layout, cfg, gesture, clock, nResets,
                    opsLeft, aggLog, lastReset, interactions, pans, feed >>

DoubleTap ==
    \E p \in TouchPoints :
        /\ LaidOut /\ cfg.isDoubleTapEnabled
        /\ ~gesture.pinch /\ ~gesture.pan /\ gesture.panOnly # "active"
        /\ Event("doubleTap", doubleTapOnStart(Cur, p))
        /\ gesture' = [gesture EXCEPT !.panOnly = "idle"]

SingleTap ==
    /\ LaidOut /\ cfg.isSingleTapEnabled
    /\ ~gesture.pinch /\ ~gesture.pan /\ gesture.panOnly # "active"
    /\ Event("singleTap", singleTapOnStart(Cur))
    /\ gesture' = [gesture EXCEPT !.panOnly = "idle"]

(***************************************************************************)
(* Actions: the animation engine                                           *)
(***************************************************************************)
AnimationFrame ==
    \E k \in {0} \cup LiveTimings(steps), dec \in SUBSET LiveDecays(steps) :
        \E advances \in IF \E b \in LiveTimings(steps) : b > k THEN BOOLEAN ELSE {FALSE},
           far \in IF dec # {} THEN BOOLEAN ELSE {FALSE} :
            /\ Frame(Cur, k, dec, advances, far) # Cur
            /\ Apply(Frame(Cur, k, dec, advances, far))
            /\ trace' = [op |-> "frame", calls |-> << >>]
            /\ UNCHANGED << cfg, feed, lastReset, interactions, pans, layout, gesture,
                            opsLeft, aggLog >>

(***************************************************************************)
(* Actions: the JS thread executes the oldest runOnJS call                 *)
(***************************************************************************)
Dequeued == [Cur EXCEPT !.jsQueue = Tail(@)]

JsPinchStarted ==
    /\ jsQueue # << >> /\ Head(jsQueue).fn = "onPinchStarted"
    /\ \E now \in Clock :
          /\ now >= clock
          /\ Commit("onPinchStarted", onPinchStarted(Dequeued, now))
    /\ UNCHANGED << gesture, opsLeft, aggLog >>

JsPinchEnded ==
    /\ jsQueue # << >> /\ Head(jsQueue).fn = "onPinchEnded"
    /\ Commit("onPinchEnded", onPinchEnded(Dequeued, Head(jsQueue).success))
    /\ UNCHANGED << gesture, opsLeft, aggLog >>

JsPanStarted ==
    /\ jsQueue # << >> /\ Head(jsQueue).fn = "onPanStarted"
    /\ \E now \in Clock :
          /\ now >= clock
          /\ Commit("onPanStarted", onPanStarted(Dequeued, now))
    /\ UNCHANGED << gesture, opsLeft, aggLog >>

JsPanEnded ==
    /\ jsQueue # << >> /\ Head(jsQueue).fn = "onPanEnded"
    /\ Commit("onPanEnded", onPanEnded(Dequeued, Head(jsQueue).success))
    /\ UNCHANGED << gesture, opsLeft, aggLog >>

JsResetAnimationEnd ==
    /\ jsQueue # << >> /\ Head(jsQueue).fn = "onResetAnimationEnd"
    /\ Commit("onResetAnimationEnd", Invoke(Dequeued, "onResetAnimationEnd"))
    /\ aggLog' = Append(aggLog,
          [id |-> Head(jsQueue).id, completed |-> Head(jsQueue).completed,
           srcs |-> {Head(jsQueue).values[t].src : t \in DOMAIN Head(jsQueue).values}])
    /\ UNCHANGED << gesture, opsLeft >>

\* onSingleTap, onDoubleTap, onProgrammaticZoom: callbacks of the host only
JsHostCallback ==
    /\ jsQueue # << >>
    /\ Head(jsQueue).fn \in {"onSingleTap", "onDoubleTap", "onProgrammaticZoom"}
    /\ Commit(Head(jsQueue).fn, Invoke(Dequeued, Head(jsQueue).fn))
    /\ UNCHANGED << gesture, opsLeft, aggLog >>

(***************************************************************************)
(* The component                                                           *)
(***************************************************************************)
\* session ids the unit harness feeds the aggregator with
FeedIds == {"", "1"}

InitState(configs, ops) ==
    /\ val = [v \in ANIMATION_VALUES |-> IF v = "SCALE" THEN 1 ELSE 0]
    /\ steps = << >>
    /\ savedScale = 1
    /\ savedFocal = [x |-> 0, y |-> 0]
    /\ savedTranslate = [x |-> 0, y |-> 0]
    /\ initialFocal = [x |-> 0, y |-> 0]
    /\ endValues = NoValues
    /\ interactionId = ""
    /\ isInteracting = FALSE
    /\ isPinching = FALSE
    /\ panGestureCount = 0
    /\ jsQueue = << >>
    /\ layout = [x |-> 0, y |-> 0, width |-> 0, height |-> 0, center |-> [x |-> 0, y |-> 0]]
    /\ cfg \in configs
    /\ gesture = [pinch |-> FALSE, pan |-> FALSE, panOnly |-> "idle"]
    /\ clock = 1
    /\ nResets = 0
    /\ opsLeft = ops
    /\ aggLog = << >>
    /\ lastReset = [tag |-> 0, id |-> "", clean |-> FALSE, overlap |-> FALSE,
                    second |-> FALSE]
    /\ interactions = [open |-> FALSE, alternate |-> TRUE, starts |-> 0]
    /\ pans = [ended |-> 0, done |-> << >>]
    /\ feed = [n |-> 0,
               fed |-> [i \in FeedIds |-> [t \in ANIMATION_VALUES |-> 0]],
               count |-> [i \in FeedIds |-> 0],
               fired |-> [i \in FeedIds |-> << >>]]

InitWith(configs, ops) ==
    /\ InitState(configs, ops)
    /\ trace = [op |-> "init", calls |-> << >>]

\* the props of the component: double tap without single tap behaves as both enabled
\* with no single tap occurring
Props ==
    {c \in [isDoubleTapEnabled : BOOLEAN, isSingleTapEnabled : BOOLEAN,
            onResetAnimationEnd : {TRUE}] : c.isDoubleTapEnabled => c.isSingleTapEnabled}

Init == InitWith(Props, MaxOps)

Next ==
    \/ OnZoomableLayout
    \/ HandleReset
    \/ HandleZoom
    \/ HandleGetInfo
    \/ PinchStart
    \/ PinchUpdate
    \/ PinchEnd
    \/ PanWhilePinchingStart
    \/ PanWhilePinchingUpdate
    \/ PanWhilePinchingEnd
    \/ PanOnlyTouchesDown
    \/ PanOnlyStart
    \/ PanOnlyUpdate
    \/ PanOnlyEnd
    \/ PanOnlyRelease
    \/ SingleContactDrag
    \/ DoubleTap
    \/ SingleTap
    \/ AnimationFrame
    \/ JsPinchStarted
    \/ JsPinchEnded
    \/ JsPanStarted
    \/ JsPanEnded
    \/ JsResetAnimationEnd
    \/ JsHostCallback

Spec == Init /\ [][Next]_vars

(***************************************************************************)
(* Unit harness: useAnimationEnd and usePanGestureCount called directly,   *)
(* in any order and with any arguments.  feed records, by session id, how  *)
(* often each target was reported (0, 1, or 2 for more than once), the     *)
(* number of reports, and at which reports the aggregated callback was     *)
(* handed to the JS thread.                                                *)
(***************************************************************************)
FeedAnimationEnd ==
    \E id \in FeedIds, t \in ANIMATION_VALUES, f \in BOOLEAN :
        LET S1 == onAnimationEnd(Cur, id, t, 0, Some(f), 0, 0)
            n == feed.count[id] + 1
        IN  /\ feed.n < MaxFeeds
            /\ Apply(S1)
            /\ feed' = [n |-> feed.n + 1,
                        fed |-> [feed.fed EXCEPT ![id][t] = Min(@ + 1, 2)],
                        count |-> [feed.count EXCEPT ![id] = n],
                        fired |-> IF Len(S1.jsQueue) > Len(jsQueue)
                                  THEN [feed.fired EXCEPT ![id] = Append(@, n)]
                                  ELSE feed.fired]
            /\ trace' = [op |-> "onAnimationEnd", calls |-> << >>]
            /\ UNCHANGED << cfg, layout, gesture, opsLeft, aggLog, lastReset, interactions, pans >>

CallStartPan ==
    /\ feed.n < MaxFeeds
    /\ Apply(startPan(Cur))
    /\ feed' = [feed EXCEPT !.n = @ + 1]
    /\ trace' = [op |-> "startPan", calls |-> << >>]
    /\ UNCHANGED << cfg, layout, gesture, opsLeft, aggLog, lastReset, interactions, pans >>

CallEndPan ==
    /\ feed.n < MaxFeeds
    /\ Apply(endPan(Cur))
    /\ feed' = [feed EXCEPT !.n = @ + 1]
    /\ trace' = [op |-> "endPan", calls |-> << >>]
    /\ UNCHANGED << cfg, layout, gesture, opsLeft, aggLog, lastReset, interactions, pans >>

\* onAnimationEnd called without the optional finished argument
FeedAnimationEndAbsent ==
    \E id \in FeedIds, t \in ANIMATION_VALUES :
        LET S1 == onAnimationEnd(Cur, id, t, 0, Undefined, 0, 0)
            n == feed.count[id] + 1
        IN  /\ feed.n < MaxFeeds
            /\ Apply(S1)
            /\ feed' = [n |-> feed.n + 1,
                        fed |-> [feed.fed EXCEPT ![id][t] = Min(@ + 1, 2)],
                        count |-> [feed.count EXCEPT ![id] = n],
                        fired |-> IF Len(S1.jsQueue) > Len(jsQueue)
                                  THEN [feed.fired EXCEPT ![id] = Append(@, n)]
                                  ELSE feed.fired]
            /\ trace' = [op |-> "onAnimationEnd", calls |-> << >>]
            /\ UNCHANGED << cfg, layout, gesture, opsLeft, aggLog, lastReset, interactions, pans >>

UnitInit ==
    InitWith([isDoubleTapEnabled : {FALSE}, isSingleTapEnabled : {FALSE},
              onResetAnimationEnd : BOOLEAN], 0)

UnitNext ==
    \/ FeedAnimationEnd
    \/ CallStartPan
    \/ CallEndPan
    \/ JsResetAnimationEnd

UnitSpec == UnitInit /\ [][UnitNext]_vars

\* useAnimationEnd alone, the finished argument passed or absent
AggregatorNext ==
    \/ FeedAnimationEnd
    \/ FeedAnimationEndAbsent
    \/ JsResetAnimationEnd

AggregatorSpec == UnitInit /\ [][AggregatorNext]_vars

(***************************************************************************)
(* The component driven by zoom(), reset() and a two-finger pan only, with *)
(* the default props, followed for more operations.                        *)
(***************************************************************************)
ResetInit ==
    InitWith({c \in Props : ~c.isDoubleTapEnabled /\ ~c.isSingleTapEnabled}, MaxResetOps)

ResetNext ==
    \/ OnZoomableLayout
    \/ HandleReset
    \/ HandleZoom
    \/ PanWhilePinchingStart
    \/ PanWhilePinchingUpdate
    \/ AnimationFrame
    \/ JsPanStarted
    \/ JsResetAnimationEnd
    \/ JsHostCallback

ResetSpec == ResetInit /\ [][ResetNext]_vars

(***************************************************************************)
(* The component with single and double tap enabled, so that a pan ends in *)
(* a decay and an interaction in moveIntoView(), driven by zoom(), reset() *)
(* and pans, followed for more operations.                                 *)
(***************************************************************************)
ViewInit ==
    InitWith({c \in Props : c.isDoubleTapEnabled}, MaxViewOps)

ViewNext ==
    \/ OnZoomableLayout
    \/ HandleReset
    \/ HandleZoom
    \/ PanWhilePinchingStart
    \/ PanWhilePinchingUpdate
    \/ PanWhilePinchingEnd
    \/ PanOnlyTouchesDown
    \/ PanOnlyStart
    \/ PanOnlyUpdate
    \/ PanOnlyEnd
    \/ PanOnlyRelease
    \/ AnimationFrame
    \/ JsPanStarted
    \/ JsPanEnded
    \/ JsResetAnimationEnd
    \/ JsHostCallback

ViewSpec == ViewInit /\ [][ViewNext]_vars

(***************************************************************************)
(* The view with both tap recognisers enabled, pinched and tapped: a tap   *)
(* that follows two gestures needs four operations.                        *)
(***************************************************************************)
TapInit ==
    InitWith({c \in Props : c.isDoubleTapEnabled}, MaxTapOps)

TapNext ==
    \/ OnZoomableLayout
    \/ PinchStart
    \/ PinchUpdate
    \/ PinchEnd
    \/ DoubleTap
    \/ SingleTap
    \/ AnimationFrame
    \/ JsPinchStarted
    \/ JsPinchEnded
    \/ JsResetAnimationEnd
    \/ JsHostCallback

TapSpec == TapInit /\ [][TapNext]_vars

(***************************************************************************)
(* The gestures under fair scheduling: runOnJS hands a call to the JS      *)
(* thread, whose event loop runs every call handed to it, oldest first.    *)
(* The JS thread can take a step exactly when a call is queued, so weak    *)
(* fairness of its steps is "infinitely often the queue is empty or a call *)
(* is run"; it is stated in that form for the handlers of the gestures and *)
(* as WF for the aggregated callback.                                      *)
(***************************************************************************)
LiveInit == InitWith(Props, MaxLiveOps)

\* the JS thread executes the oldest call
JsThread ==
    \/ JsPinchStarted
    \/ JsPinchEnded
    \/ JsPanStarted
    \/ JsPanEnded
    \/ JsResetAnimationEnd

LiveNext ==
    \/ OnZoomableLayout
    \/ PinchStart
    \/ PinchUpdate
    \/ PinchEnd
    \/ PanWhilePinchingStart
    \/ PanWhilePinchingEnd
    \/ PanOnlyTouchesDown
    \/ PanOnlyStart
    \/ PanOnlyEnd
    \/ PanOnlyRelease
    \/ AnimationFrame
    \/ JsThread

LiveSpec ==
    /\ LiveInit /\ [][LiveNext]_vars
    /\ WF_vars(JsResetAnimationEnd)
    /\ []<>(jsQueue = << >>) \/ []<><<JsThread>>_vars

(***************************************************************************)
(* useZoomableLayout on its own, with and without the onLayout prop, over  *)
(* a sequence of layout events.  trace keeps the event, what the callback  *)
(* was called with and the geometry that was stored when it ran.           *)
(***************************************************************************)
LayoutInit ==
    InitWith([isDoubleTapEnabled : {FALSE}, isSingleTapEnabled : {FALSE},
              onResetAnimationEnd : {TRUE}, onLayout : BOOLEAN], MaxLayouts)

\* onZoomableLayout(event): the callback, if it is a function, then setState
LayoutChange ==
    \E e \in LayoutEvents :
        /\ opsLeft > 0
        /\ opsLeft' = opsLeft - 1
        /\ layout' = LayoutOf(e)
        /\ trace' = [op |-> "onZoomableLayout", event |-> e,
                     calls |-> IF cfg.onLayout THEN << "onLayout" >> ELSE << >>,
                     args |-> IF cfg.onLayout THEN << e >> ELSE << >>,
                     seen |-> IF cfg.onLayout THEN << layout >> ELSE << >>]
        /\ UNCHANGED << val, steps, savedScale, savedFocal, savedTranslate,
                        initialFocal, endValues, interactionId, isInteracting,
                        isPinching, panGestureCount, jsQueue, cfg, gesture, clock,
                        nResets, aggLog, lastReset, interactions, pans, feed >>

LayoutNext == LayoutChange

LayoutSpec == LayoutInit /\ [][LayoutNext]_vars

(***************************************************************************)
(* The pure helpers applied to arguments drawn by the initial state: trace *)
(* holds the arguments and, after the call, the value returned.  Container *)
(* sizes are even, so that the halving of the limits is exact.             *)
(***************************************************************************)
PureInit ==
    /\ InitState([isDoubleTapEnabled : {FALSE}, isSingleTapEnabled : {FALSE},
                 onResetAnimationEnd : {TRUE}], 0)
    /\ \E a \in Coord, b \in Coord, c \in Coord :
           trace = [op |-> "input", calls |-> << >>, args |-> << a, b, c >>]

CallClamp ==
    /\ trace.op = "input"
    /\ trace' = [op |-> "clamp", calls |-> << >>, args |-> trace.args,
                 out |-> clamp(trace.args[1], trace.args[2], trace.args[3])]
    /\ UNCHANGED << val, steps, savedScale, savedFocal, savedTranslate, initialFocal,
                    endValues, interactionId, isInteracting, isPinching,
                    panGestureCount, jsQueue, layout, cfg, gesture, clock, nResets,
                    opsLeft, aggLog, lastReset, interactions, pans, feed >>

CallLimits ==
    /\ trace.op = "input"
    /\ trace.args[1] >= 0 /\ trace.args[1] % 2 = 0
    /\ trace.args[2] >= 0 /\ trace.args[2] % 2 = 0
    /\ trace' = [op |-> "limits", calls |-> << >>, args |-> trace.args,
                 out |-> [right |-> right(trace.args[1], trace.args[3]),
                          left |-> left(trace.args[1], trace.args[3]),
                          bottom |-> bottom(trace.args[2], trace.args[3]),
                          top |-> top(trace.args[2], trace.args[3])]]
    /\ UNCHANGED << val, steps, savedScale, savedFocal, savedTranslate, initialFocal,
                    endValues, interactionId, isInteracting, isPinching,
                    panGestureCount, jsQueue, layout, cfg, gesture, clock, nResets,
                    opsLeft, aggLog, lastReset, interactions, pans, feed >>

PureNext ==
    \/ CallClamp
    \/ CallLimits

PureSpec == PureInit /\ [][PureNext]_vars

(***************************************************************************)
(* Properties                                                              *)
(***************************************************************************)
Identity == [v \in ANIMATION_VALUES |-> IF v = "SCALE" THEN 1 ELSE 0]
\* no gesture active and no animation in flight
AtRest == gesture = [pinch |-> FALSE, pan |-> FALSE, panOnly |-> "idle"] /\ steps = << >>
\* the aggregated callbacks executed that report a completion of one of the resets
CallbacksOf(tags) == {i \in DOMAIN aggLog : aggLog[i].srcs \cap tags # {}}

\* C1 (UnitSpec): with a completion callback supplied, reporting each of the five
\* targets of one session id once, in any order, hands the aggregated callback to the
\* JS thread exactly once, at the fifth report, and at none of the first four.
C1_AggregatedOnceAtFifth ==
    cfg.onResetAnimationEnd =>
        \A id \in FeedIds :
            (\A t \in ANIMATION_VALUES : feed.fed[id][t] <= 1) =>
                feed.fired[id] = IF \A t \in ANIMATION_VALUES : feed.fed[id][t] = 1
                                 THEN << Cardinality(ANIMATION_VALUES) >> ELSE << >>

C1_Witness ==
    /\ cfg.onResetAnimationEnd
    /\ trace.op = "onAnimationEnd"
    /\ \E id \in FeedIds :
          /\ \A t \in ANIMATION_VALUES : feed.fed[id][t] = 1
          /\ feed.fired[id] = << Cardinality(ANIMATION_VALUES) >>

\* C2 (ResetSpec): reset() called twice in succession under one session id, the
\* second call while the five animations of the first are running, yields exactly one
\* aggregated onResetAnimationEnd callback once everything has settled.
C2_TwoResetsOneCallback ==
    (lastReset.second /\ lastReset.clean /\ steps = << >> /\ jsQueue = << >>) =>
        Cardinality(CallbacksOf({lastReset.tag - 1, lastReset.tag})) = 1

\* C3 (Spec): after a reset() whose animations all ran to their end with no gesture
\* update, zoom(), double tap or further reset() in between, the transform is the
\* identity and onResetAnimationEnd was invoked exactly once for that reset, with
\* finished = true.
C3_ResetSettlesOnce ==
    (/\ lastReset.tag > 0 /\ lastReset.clean
     /\ Resetting(lastReset.tag) = {} /\ steps = << >> /\ jsQueue = << >>) =>
        /\ val = Identity
        /\ Cardinality(CallbacksOf({lastReset.tag})) = 1
        /\ \A i \in CallbacksOf({lastReset.tag}) : aggLog[i].completed

\* C4 (Spec): for every session id, the initial "" included, the aggregated
\* onResetAnimationEnd callback is invoked at most once.
C4_OneCallbackPerSessionId ==
    \A i, j \in DOMAIN aggLog : aggLog[i].id = aggLog[j].id => i = j

\* C5 (Spec): with minScale <= maxScale, in every state at rest the scale lies
\* between minScale and maxScale.
C5_ScaleWithinLimitsAtRest ==
    (minScale <= maxScale /\ AtRest) => (minScale <= scale /\ scale <= maxScale)

\* C6 (UnitSpec): the pan count is never negative, endPan() at count 0 leaves it at 0,
\* and isPanning() holds exactly when the count is positive.
C6_PanCounter ==
    /\ [](panGestureCount >= 0 /\ (isPanning(Cur) <=> panGestureCount > 0))
    /\ [][(trace'.op = "endPan" /\ panGestureCount = 0) => panGestureCount' = 0]_vars

C6_Witness ==
    /\ trace.op = "endPan" /\ feed.n = 1
    /\ panGestureCount = 0 /\ ~isPanning(Cur)

\* C7 (Spec): updateInteractionId() and onInteractionStart are invoked, once each,
\* exactly by a pinch start or pan start processed while not interacting, which makes
\* the engine interacting; no other step invokes either or makes it interacting.
C7_StartOncePerInteraction ==
    [][LET starts == Count(trace'.calls, "onInteractionStart")
           updates == Count(trace'.calls, "updateInteractionId")
       IN  IF trace'.op \in {"onPinchStarted", "onPanStarted"} /\ ~isInteracting
           THEN starts = 1 /\ updates = 1 /\ isInteracting'
           ELSE starts = 0 /\ updates = 0 /\ (isInteracting' => isInteracting)]_vars

C7_Witness ==
    /\ trace.op = "onPanStarted" /\ isPinching /\ isInteracting
    /\ Count(trace.calls, "onInteractionStart") = 0
    /\ Count(trace.calls, "updateInteractionId") = 0
    /\ interactions.starts = 1

\* C8 (Spec): onInteractionEnd is invoked, once, exactly by a pinch end or pan end
\* processed while interacting that leaves isPinching false and the pan count 0, and
\* the engine stops interacting then and only then.
C8_EndWhenNothingActive ==
    [][LET ends == Count(trace'.calls, "onInteractionEnd")
       IN  IF /\ trace'.op \in {"onPinchEnded", "onPanEnded"}
              /\ isInteracting /\ ~isPinching' /\ panGestureCount' = 0
           THEN ends = 1 /\ ~isInteracting'
           ELSE ends = 0 /\ (isInteracting => isInteracting')]_vars

C8_Witness ==
    /\ trace.op = "onPanEnded"
    /\ Count(trace.calls, "onInteractionEnd") = 1
    /\ ~isInteracting /\ ~isPinching /\ panGestureCount = 0

\* C9 (Spec): onInteractionStart and onInteractionEnd alternate, beginning with
\* onInteractionStart.
C9_StartEndAlternate == interactions.alternate

C9_Witness ==
    /\ interactions.starts = 2 /\ interactions.open
    /\ Count(trace.calls, "onInteractionStart") = 1

\* C10 (Spec): a pan-only touch-down at scale <= 1 makes the recogniser fail: the
\* transform, the saved snapshots, the pan count and the interacting flag are unchanged
\* and no callback is invoked or handed to the JS thread.
C10_PanOnlyFailsAtRestScale ==
    [][(trace'.op = "panOnlyTouchesDown" /\ scale <= 1) =>
          /\ gesture'.panOnly = "idle"
          /\ trace'.calls = << >>
          /\ UNCHANGED << val, steps, savedScale, savedFocal, savedTranslate,
                          initialFocal, panGestureCount, isInteracting, isPinching,
                          jsQueue >>]_vars

C10_Witness ==
    /\ trace.op = "panOnlyTouchesDown" /\ scale <= 1
    /\ gesture.panOnly = "idle"

\* C17: for all v and all lo <= hi, clamp(v, lo, hi) lies in [lo, hi] and is v itself
\* when v lies in [lo, hi]
C17_ClampWithinBounds ==
    (trace.op = "clamp" /\ trace.args[2] <= trace.args[3]) =>
        /\ trace.args[2] <= trace.out /\ trace.out <= trace.args[3]
        /\ (trace.args[2] <= trace.args[1] /\ trace.args[1] <= trace.args[3]) =>
               trace.out = trace.args[1]
\* a value below the range was raised to the lower bound
C17_Witness ==
    /\ trace.op = "clamp"
    /\ trace.args[1] < trace.args[2] /\ trace.args[2] < trace.args[3]
    /\ trace.out = trace.args[2]

\* C18: for all widths w, heights h and scales s, also s < 1: right is w*(s-1)/2,
\* bottom is h*(s-1)/2, left and top are their negations, and all are 0 at s = 1
C18_LimitsSymmetric ==
    trace.op = "limits" =>
        /\ 2 * trace.out.right = trace.args[1] * (trace.args[3] - 1)
        /\ 2 * trace.out.bottom = trace.args[2] * (trace.args[3] - 1)
        /\ trace.out.left = -trace.out.right
        /\ trace.out.top = -trace.out.bottom
        /\ trace.args[3] = 1 =>
               trace.out = [right |-> 0, left |-> 0, bottom |-> 0, top |-> 0]
\* limits of a scale below 1: the right limit is negative, the left one positive
C18_Witness ==
    /\ trace.op = "limits"
    /\ trace.args[3] < 1 /\ trace.args[1] > 0 /\ trace.args[2] > 0
    /\ trace.out.right < 0 /\ trace.out.left > 0 /\ trace.out.top > 0

\* C19: whenever the aggregated callback is invoked, completed is true exactly if the
\* recorded finished flag is true for each of the five targets; one target with
\* finished = false or with finished absent makes it false
C19_CompletedIffAllFinished ==
    \A i \in DOMAIN jsQueue :
        jsQueue[i].fn = "onResetAnimationEnd" =>
            /\ DOMAIN jsQueue[i].values = ANIMATION_VALUES
            /\ jsQueue[i].completed <=>
                   \A t \in ANIMATION_VALUES : jsQueue[i].values[t].finished = Some(TRUE)
\* a callback with completed = false whose only unfinished target has no finished flag
C19_Witness ==
    \E i \in DOMAIN jsQueue :
        /\ jsQueue[i].fn = "onResetAnimationEnd"
        /\ ~jsQueue[i].completed
        /\ \E t \in ANIMATION_VALUES :
               /\ jsQueue[i].values[t].finished = Undefined
               /\ \A u \in ANIMATION_VALUES \ {t} :
                      jsQueue[i].values[u].finished = Some(TRUE)

\* the record kept under a session id, empty when there is none
RecordOf(ev, id) == IF id \in DOMAIN ev THEN ev[id] ELSE NoValues

\* C20: every record kept in the per-session map holds 1 to 4 of the five targets; a
\* completion that brings the fifth distinct target removes the record in the same step
\* and hands over the callback; any other completion, a repeated target included, is
\* recorded without a callback; after the removal a completion starts a fresh record
C20_RecordsPartial ==
    [][/\ \A id \in DOMAIN endValues' :
              /\ DOMAIN endValues'[id] \subseteq ANIMATION_VALUES
              /\ Cardinality(DOMAIN endValues'[id]) \in 1 .. 4
       /\ (trace'.op = "onAnimationEnd" /\ cfg.onResetAnimationEnd) =>
              \E id \in FeedIds, t \in ANIMATION_VALUES :
                  LET old == RecordOf(endValues, id)
                      new == RecordOf(endValues', id)
                  IN  /\ \A j \in FeedIds \ {id} :
                             RecordOf(endValues', j) = RecordOf(endValues, j)
                      /\ IF DOMAIN old \cup {t} = ANIMATION_VALUES
                         THEN /\ id \notin DOMAIN endValues'
                              /\ Len(jsQueue') = Len(jsQueue) + 1
                              /\ jsQueue'[Len(jsQueue')].fn = "onResetAnimationEnd"
                              /\ jsQueue'[Len(jsQueue')].id = id
                         ELSE /\ DOMAIN new = DOMAIN old \cup {t}
                              /\ \A u \in DOMAIN old \ {t} : new[u] = old[u]
                              /\ jsQueue' = jsQueue]_vars
\* a record was removed at its fifth target, and a later completion under the same id
\* has started a fresh record of one target
C20_Witness ==
    \E id \in FeedIds :
        /\ feed.fired[id] = << 5 >>
        /\ feed.count[id] = 6
        /\ id \in DOMAIN endValues
        /\ Cardinality(DOMAIN endValues[id]) = 1

\* the value the shared value v is heading for: the target of its running timing
\* animation, or its value when it runs none
TargetOf(st, vl, v) ==
    LET running == {i \in DOMAIN st : st[i].v = v /\ st[i].live /\ st[i].anim.kind = "timing"}
    IN  IF running = {} THEN vl[v] ELSE st[CHOOSE i \in running : TRUE].anim.to
\* the calls of fn handed to the JS thread
Handed(q, fn) == SelectSeq(q, LAMBDA c : c.fn = fn)
\* the step hands exactly one call to the JS thread ahead of any other, and it is call
NotifiesOnce(call) ==
    /\ Len(jsQueue') > Len(jsQueue)
    /\ jsQueue'[Len(jsQueue) + 1] = call
    /\ Len(Handed(jsQueue', call.fn)) = Len(Handed(jsQueue, call.fn)) + 1
\* the step performs reset(): the snapshots are cleared and all five values head for
\* the identity
PerformsReset ==
    /\ Count(trace'.calls, "reset") = 1
    /\ nResets' = nResets + 1
    /\ savedScale' = 1
    /\ savedFocal' = [x |-> 0, y |-> 0]
    /\ savedTranslate' = [x |-> 0, y |-> 0]
    /\ initialFocal' = [x |-> 0, y |-> 0]
    /\ \A v \in ANIMATION_VALUES : TargetOf(steps', val', v) = Identity[v]

\* C12: zoom({scale, x, y}) with scale > 1 notifies onProgrammaticZoom(ZOOM_IN), sends
\* scale to the requested value and focal.a to (center.a - a) * (scale - 1), and leaves
\* translate and the saved snapshots as they are; with scale <= 1 it notifies
\* onProgrammaticZoom(ZOOM_OUT) and performs reset(); one notification per call
C12_ProgrammaticZoom ==
    [][trace'.op = "zoom" =>
        \E z \in ZoomScales, p \in Points :
            IF z > 1
            THEN /\ NotifiesOnce(CallZoom("onProgrammaticZoom", ZOOM_IN))
                 /\ TargetOf(steps', val', "SCALE") = z
                 /\ TargetOf(steps', val', "FOCAL_X") = (center.x - p.x) * (z - 1)
                 /\ TargetOf(steps', val', "FOCAL_Y") = (center.y - p.y) * (z - 1)
                 /\ \A v \in {"TRANSLATE_X", "TRANSLATE_Y"} :
                        /\ val'[v] = val[v]
                        /\ TargetOf(steps', val', v) = TargetOf(steps, val, v)
                 /\ UNCHANGED << savedScale, savedFocal, savedTranslate, initialFocal >>
                 /\ Count(trace'.calls, "reset") = 0
            ELSE /\ NotifiesOnce(CallZoom("onProgrammaticZoom", ZOOM_OUT))
                 /\ PerformsReset]_vars
\* zoom to scale 2 at the corner of the laid out view: scale heads for 2, focal for
\* the centre
C12_Witness ==
    /\ trace.op = "zoom"
    /\ LaidOut
    /\ TargetOf(steps, val, "SCALE") = 2
    /\ TargetOf(steps, val, "FOCAL_X") = center.x
    /\ TargetOf(steps, val, "FOCAL_Y") = center.y
    /\ Len(Handed(jsQueue, "onProgrammaticZoom")) = 1

\* C13: a double tap at scale exactly 1 notifies onDoubleTap(ZOOM_IN) and sends scale to
\* doubleTapScale and focal.a to (center.a - tap.a) * (doubleTapScale - 1), which is
\* {0, 0} for a tap at the centre; at any other scale, in the middle of an animation
\* too, it notifies onDoubleTap(ZOOM_OUT) and performs reset()
C13_DoubleTapToggles ==
    [][trace'.op = "doubleTap" =>
        IF scale = 1
        THEN /\ NotifiesOnce(CallZoom("onDoubleTap", ZOOM_IN))
             /\ TargetOf(steps', val', "SCALE") = doubleTapScale
             /\ \E p \in TouchPoints :
                    /\ TargetOf(steps', val', "FOCAL_X") =
                           (center.x - p.x) * (doubleTapScale - 1)
                    /\ TargetOf(steps', val', "FOCAL_Y") =
                           (center.y - p.y) * (doubleTapScale - 1)
                    /\ p = center =>
                           /\ TargetOf(steps', val', "FOCAL_X") = 0
                           /\ TargetOf(steps', val', "FOCAL_Y") = 0
             /\ Count(trace'.calls, "reset") = 0
        ELSE /\ NotifiesOnce(CallZoom("onDoubleTap", ZOOM_OUT))
             /\ PerformsReset]_vars
\* two double taps and nothing else: the second one came while the scale was on its way
\* from 1 to doubleTapScale, and has reset
C13_Witness ==
    /\ trace.op = "doubleTap"
    /\ opsLeft = MaxOps - 2
    /\ Handed(jsQueue, "onDoubleTap") =
           << CallZoom("onDoubleTap", ZOOM_IN), CallZoom("onDoubleTap", ZOOM_OUT) >>
    /\ Count(trace.calls, "reset") = 1
    /\ scale > 1 /\ scale < doubleTapScale
    /\ TargetOf(steps, val, "SCALE") = 1

\* C11: after every pinch update with gesture scale e, scale is
\* clamp(savedScale * e, minScale, maxScale) and focal.a is
\* savedFocal.a + (center.a - initialFocal.a) * (scale - savedScale) with the clamped
\* scale; from savedScale 1 and savedFocal 0 that is (center.a - initialFocal.a) *
\* (scale - 1), and a pinch whose initial focal point is the centre leaves focal at
\* savedFocal
C11_PinchUpdate ==
    [][trace'.op = "pinchUpdate" =>
        /\ \E e \in PinchScales : scale' = clamp(savedScale * e, minScale, maxScale)
        /\ focal'.x = savedFocal.x + (center.x - initialFocal.x) * (scale' - savedScale)
        /\ focal'.y = savedFocal.y + (center.y - initialFocal.y) * (scale' - savedScale)
        /\ (savedScale = 1 /\ savedFocal = [x |-> 0, y |-> 0]) =>
               /\ focal'.x = (center.x - initialFocal.x) * (scale' - 1)
               /\ focal'.y = (center.y - initialFocal.y) * (scale' - 1)
        /\ initialFocal = center => focal' = savedFocal
        /\ UNCHANGED << savedScale, savedFocal, initialFocal >>]_vars
\* a pinch from scale 2 at a corner of the view, updated beyond maxScale: the scale is
\* clamped and the focal offset has moved by (centre - corner) * (maxScale - 2)
C11_Witness ==
    /\ trace.op = "pinchUpdate"
    /\ savedScale = 2 /\ scale = maxScale
    /\ initialFocal = [x |-> 0, y |-> 0]
    /\ focal = [x |-> savedFocal.x + center.x * (maxScale - 2),
                y |-> savedFocal.y + center.y * (maxScale - 2)]
    /\ focal # savedFocal

\* C16: getInfo() changes no state and invokes no callback, and returns
\* transformations.translateA = translate.a + focal.a, transformations.scale = scale,
\* scaledSize = {width * scale, height * scale} and
\* visibleArea.a = |translate.a + focal.a - size.a * (scale - 1) / 2|
C16_GetInfoReadsOnly ==
    [][trace'.op = "getInfo" =>
        /\ UNCHANGED << val, steps, savedScale, savedFocal, savedTranslate, initialFocal,
                        endValues, interactionId, isInteracting, isPinching,
                        panGestureCount, jsQueue, layout, clock, nResets, aggLog >>
        /\ trace'.calls = << >>
        /\ trace'.out.transformations =
               [translateX |-> translate.x + focal.x,
                translateY |-> translate.y + focal.y, scale |-> scale]
        /\ trace'.out.scaledSize = [width |-> width * scale, height |-> height * scale]
        /\ 2 * trace'.out.visibleArea.x =
               Abs(2 * (translate.x + focal.x) - width * (scale - 1))
        /\ 2 * trace'.out.visibleArea.y =
               Abs(2 * (translate.y + focal.y) - height * (scale - 1))]_vars
\* getInfo() at scale 2 with focal {1, 1} and translate {2, -3} in the 2 x 2 view
C16_Witness ==
    /\ trace.op = "getInfo"
    /\ scale = 2 /\ focal = [x |-> 1, y |-> 1] /\ translate = [x |-> 2, y |-> -3]
    /\ trace.out.transformations = [translateX |-> 3, translateY |-> -2, scale |-> 2]
    /\ trace.out.scaledSize = [width |-> 4, height |-> 4]
    /\ trace.out.visibleArea = [x |-> 2, y |-> 3, width |-> 2, height |-> 2]

\* the onPanEnded calls for the pan end event e still owed by a registered decay
\* callback, waiting in the queue of the JS thread, and executed
PanEndsOwed(e) ==
    Cardinality({i \in DOMAIN steps : /\ steps[i].anim.cb.type = "decay"
                                      /\ steps[i].anim.cb.fire
                                      /\ steps[i].anim.cb.tag = e})
PanEndsQueued(e) ==
    Cardinality({i \in DOMAIN jsQueue : /\ jsQueue[i].fn = "onPanEnded"
                                        /\ jsQueue[i].id = ToString(e)})
PanEndsDone(e) ==
    Cardinality({i \in DOMAIN pans.done : pans.done[i].event = ToString(e)})

\* C14: for every pan gesture that ends, pan-only or pan-while-pinching, whatever the
\* release velocities and whether the release decay runs to its end or is cut short,
\* onPanEnded is executed exactly once: at any time exactly one call per ended pan has
\* been executed, waits on the JS thread, or is owed by one decay callback, and none
\* for any other event
C14_PanEndedOnce ==
    /\ \A e \in 1 .. pans.ended : PanEndsOwed(e) + PanEndsQueued(e) + PanEndsDone(e) = 1
    /\ \A i \in DOMAIN pans.done :
           \E e \in 1 .. pans.ended : pans.done[i].event = ToString(e)
\* onPanEnded has run once for a pan whose release decay was cut short, and nothing is
\* left to run
C14_Witness ==
    /\ pans.ended = 1
    /\ pans.done = << [event |-> "1", finished |-> FALSE] >>
    /\ jsQueue = << >> /\ steps = << >>

\* the registered animations of the shared value v
AnimationsOf(st, v) == SelectSeq(st, LAMBDA e : e.v = v)
\* the step treats one axis as moveIntoView does at scale > 1: beyond a limit, translate
\* heads for that limit and focal for 0; within the limits both are left alone
AxisIntoView(size, tv, fv) ==
    LET limit == (size * (scale - 1)) \div 2
        total == val[tv] + val[fv]
    IN  IF total > limit
        THEN TargetOf(steps', val', tv) = limit /\ TargetOf(steps', val', fv) = 0
        ELSE IF total < -limit
        THEN TargetOf(steps', val', tv) = -limit /\ TargetOf(steps', val', fv) = 0
        ELSE \A v \in {tv, fv} :
                 val'[v] = val[v] /\ AnimationsOf(steps', v) = AnimationsOf(steps, v)

\* C15: moveIntoView() at scale > 1 treats each axis on its own: if translate + focal is
\* above the positive limit or below the negative one, translate is sent to that limit
\* and focal to 0, otherwise both stay as they are; the scale is not changed; at
\* scale <= 1 it performs reset()
C15_MoveIntoView ==
    [][Count(trace'.calls, "moveIntoView") = 1 =>
        IF scale > 1
        THEN /\ AxisIntoView(width, "TRANSLATE_X", "FOCAL_X")
             /\ AxisIntoView(height, "TRANSLATE_Y", "FOCAL_Y")
             /\ val'["SCALE"] = scale
             /\ AnimationsOf(steps', "SCALE") = AnimationsOf(steps, "SCALE")
             /\ Count(trace'.calls, "reset") = 0
        ELSE PerformsReset]_vars
\* moveIntoView() has found the horizontal offset beyond the right limit and the
\* vertical one beyond the top limit: translate.x heads for the right limit,
\* translate.y for the top limit, and focal for {0, 0}
C15_Witness ==
    /\ Count(trace.calls, "moveIntoView") = 1
    /\ scale > 1
    /\ translate.x + focal.x > right(width, scale)
    /\ translate.y + focal.y < top(height, scale)
    /\ focal.x # 0 /\ focal.y # 0
    /\ TargetOf(steps, val, "TRANSLATE_X") = right(width, scale)
    /\ TargetOf(steps, val, "TRANSLATE_Y") = top(height, scale)
    /\ TargetOf(steps, val, "FOCAL_X") = 0
    /\ TargetOf(steps, val, "FOCAL_Y") = 0

\* C21: every reset() delivers a completion for each of its five targets under the id
\* it captured, so whenever no animation issued by reset() is registered any more the
\* per-session map of the aggregator is empty
C21_NoRecordLeftAtRest ==
    (\A i \in DOMAIN steps : steps[i].anim.cb.type # "reset") => DOMAIN endValues = {}

\* C22: every updateInteractionId() produces a session id different from the ids of all
\* earlier interactions, however close in time: in particular different from the id of
\* the interaction before it
C22_FreshSessionId ==
    [][(Count(trace'.calls, "updateInteractionId") = 1 /\ interactions.starts >= 1) =>
          interactionId' # interactionId]_vars

\* the shared values and snapshots the pinch handlers work on
PinchSide == << val["SCALE"], val["FOCAL_X"], val["FOCAL_Y"], savedScale, savedFocal, initialFocal >>
\* the shared values and snapshots the pan handlers work on
PanSide == << val["TRANSLATE_X"], val["TRANSLATE_Y"], savedTranslate >>
\* the step is the gesture callback op of the environment
Handles(op) == trace'.op = op /\ opsLeft' = opsLeft - 1

\* C23: the start and update handlers of the pinch leave translate and savedTranslate
\* alone; the start and update handlers of both pans leave scale, focal, savedScale,
\* savedFocal and initialFocal alone, the start snapshots translate into savedTranslate
\* and the update sets translate to savedTranslate plus the translation of the event
C23_HandlersKeepToTheirSide ==
    [][/\ (Handles("pinchStart") \/ Handles("pinchUpdate")) => PanSide' = PanSide
       /\ (Handles("panWhilePinchingStart") \/ Handles("panOnlyStart")) =>
             /\ PinchSide' = PinchSide
             /\ val' = val
             /\ savedTranslate' = [x |-> val["TRANSLATE_X"], y |-> val["TRANSLATE_Y"]]
       /\ (Handles("panWhilePinchingUpdate") \/ Handles("panOnlyUpdate")) =>
             /\ PinchSide' = PinchSide
             /\ savedTranslate' = savedTranslate
             /\ \E t \in Translations :
                   /\ val'["TRANSLATE_X"] = savedTranslate.x + t.x
                   /\ val'["TRANSLATE_Y"] = savedTranslate.y + t.y]_vars
\* a pan moved the image while a pinch was in progress
C23_Witness ==
    /\ trace.op = "panWhilePinchingUpdate"
    /\ gesture.pinch
    /\ val["TRANSLATE_Y"] = -3
    /\ savedTranslate = [x |-> 0, y |-> 0]

\* everything the reset() call of the step registers, records or reports is keyed by id
ResetKeyedBy(id) ==
    /\ \A i \in DOMAIN steps' :
          (steps'[i].anim.cb.type = "reset" /\ steps'[i].anim.cb.tag = nResets') =>
              steps'[i].anim.cb.id = id
    /\ \A k \in DOMAIN endValues' : \A t \in DOMAIN endValues'[k] :
          endValues'[k][t].src = nResets' => k = id
    /\ \A i \in DOMAIN jsQueue' : \A t \in DOMAIN jsQueue'[i].values :
          jsQueue'[i].values[t].src = nResets' => jsQueue'[i].id = id

\* C24: the tap handlers never change the interacting flag, the pinching flag, the pan
\* count or the session id and never invoke onInteractionStart / onInteractionEnd; the
\* reset() of a double tap is keyed by the session id that is current
C24_TapsKeepSession ==
    [][(Handles("doubleTap") \/ Handles("singleTap")) =>
          /\ UNCHANGED << isInteracting, isPinching, panGestureCount, interactionId >>
          /\ Count(trace'.calls, "onInteractionStart") = 0
          /\ Count(trace'.calls, "onInteractionEnd") = 0
          /\ interactions' = interactions
          /\ Count(trace'.calls, "reset") = 1 =>
                nResets' = nResets + 1 /\ ResetKeyedBy(interactionId)]_vars
\* a double tap resets the view while the session that a pinch opened is current
C24_Witness ==
    /\ trace.op = "doubleTap"
    /\ Count(trace.calls, "reset") = 1
    /\ interactionId # ""
    /\ isInteracting /\ isPinching
    /\ \E i \in DOMAIN steps : steps[i].anim.cb.type = "reset" /\ steps[i].anim.cb.tag = nResets

\* the step evaluates the session-end condition of onInteractionEnded with the pinching
\* flag and the pan count that the end handler has just set
EvaluatesSessionEnd(pinching, count) ==
    IF isInteracting /\ ~pinching /\ count = 0
    THEN ~isInteracting' /\ Count(trace'.calls, "onInteractionEnd") = 1
    ELSE isInteracting' = isInteracting /\ Count(trace'.calls, "onInteractionEnd") = 0

\* C25: a pinch or pan that ends with success = false gets the same session bookkeeping
\* as one that ends with success = true: the pinch end is handed to the JS thread,
\* isPinching is cleared or the pan count decremented, the end callback is invoked with
\* the success flag as received, and the session-end condition is evaluated, so that
\* the interacting flag, the pan count and the session id do not depend on success
C25_EndBookkeepingIgnoresSuccess ==
    [][/\ Handles("pinchEnd") =>
             \E success \in BOOLEAN : NotifiesOnce(CallSuccess("onPinchEnded", success))
       /\ trace'.op = "onPinchEnded" =>
             /\ ~isPinching'
             /\ UNCHANGED << panGestureCount, interactionId >>
             /\ Head(trace'.calls) = "onPinchEnd"
             /\ trace'.passed = << Head(jsQueue).success >>
             /\ EvaluatesSessionEnd(FALSE, panGestureCount)
       /\ trace'.op = "onPanEnded" =>
             /\ panGestureCount' = Max(panGestureCount - 1, 0)
             /\ UNCHANGED << isPinching, interactionId >>
             /\ Head(trace'.calls) = "onPanEnd"
             /\ trace'.passed = << Head(jsQueue).success >>
             /\ EvaluatesSessionEnd(isPinching, panGestureCount')]_vars
\* a pinch that ended with success = false closed the interaction
C25_Witness ==
    /\ trace.op = "onPinchEnded"
    /\ trace.passed = << FALSE >>
    /\ Count(trace.calls, "onInteractionEnd") = 1
    /\ ~isInteracting /\ ~isPinching /\ panGestureCount = 0
    /\ interactionId # ""

\* callbacks of the recognisers that take part in the race only
RacedOps == {"panOnlyTouchesDown", "panOnlyStart", "panOnlyUpdate", "panOnlyEnd",
             "panOnlyRelease", "doubleTap", "singleTap"}

\* C26: with both tap flags false the composed gesture is the simultaneous pinch and
\* pan-while-pinching pair alone: the pan-only and the tap recognisers deliver no
\* callback and a single-contact drag changes nothing, at any scale; with a tap flag
\* set, the pair, the pan-only recogniser and the taps are raced: the pan-only
\* recogniser is never active together with the pinch or the two-finger pan, and a tap
\* fires only while none of them is active
C26_Composition ==
    [][IF ~cfg.isDoubleTapEnabled /\ ~cfg.isSingleTapEnabled
       THEN /\ trace'.op \notin RacedOps
            /\ gesture'.panOnly = "idle"
            /\ trace'.op = "singleContactDrag" =>
                  UNCHANGED << val, steps, savedTranslate, jsQueue >>
       ELSE /\ ~(gesture'.panOnly = "active" /\ (gesture'.pinch \/ gesture'.pan))
            /\ (Handles("doubleTap") \/ Handles("singleTap")) =>
                  /\ ~gesture.pinch /\ ~gesture.pan /\ gesture.panOnly # "active"
                  /\ gesture' = [pinch |-> FALSE, pan |-> FALSE, panOnly |-> "idle"]]_vars
\* a single contact was dragged over the zoomed view with the taps disabled
C26_Witness ==
    /\ trace.op = "singleContactDrag"
    /\ ~cfg.isDoubleTapEnabled /\ ~cfg.isSingleTapEnabled
    /\ val["SCALE"] = 2
    /\ steps = << >>

\* C27: between the start and the end of a pinch savedScale and savedFocal keep the
\* values snapshotted at the start, and between the start and the end of a pan
\* savedTranslate keeps its snapshot, whatever else runs in between
C27_SnapshotsStable ==
    [][/\ (gesture.pinch /\ gesture'.pinch) =>
             UNCHANGED << savedScale, savedFocal >>
       /\ \/ gesture.pan /\ gesture'.pan
          \/ gesture.panOnly = "active" /\ gesture'.panOnly = "active"
          => UNCHANGED savedTranslate]_vars

\* C28: on each layout event the onLayout callback, when there is one, is invoked with
\* the event as received and before the stored geometry changes; afterwards the stored
\* geometry is the event's {x, y, width, height} with center {x + width/2,
\* y + height/2}; without a callback the geometry is updated in the same way
C28_LayoutStored ==
    [][trace'.op = "onZoomableLayout" =>
          LET e == trace'.event
          IN  /\ layout' = [x |-> e.x, y |-> e.y, width |-> e.width, height |-> e.height,
                            center |-> [x |-> e.x + e.width \div 2,
                                        y |-> e.y + e.height \div 2]]
              /\ IF cfg.onLayout
                 THEN /\ trace'.calls = << "onLayout" >>
                      /\ trace'.args = << e >>
                      /\ trace'.seen = << layout >>
                 ELSE trace'.calls = << >>]_vars
\* the second layout event moved the view: the callback ran while the geometry of the
\* first was still stored
C28_Witness ==
    /\ trace.op = "onZoomableLayout"
    /\ cfg.onLayout
    /\ trace.seen = << LayoutOf([x |-> 0, y |-> 0, width |-> 2, height |-> 2]) >>
    /\ layout.x = 1 /\ layout.width = 4
    /\ layout.center = [x |-> 3, y |-> 4]

\* C29: the five completions reported by one aggregated callback come from a single
\* reset() call: no aggregated record mixes completions of two reset() calls
C29_RecordOfOneReset ==
    \A i \in DOMAIN aggLog : Cardinality(aggLog[i].srcs) = 1

\* a release decay is registered: running, or interrupted with its callback still due
Decaying == \E i \in DOMAIN steps : steps[i].anim.kind = "decay"

\* C30: if every pinch and pan that starts ends and every release decay completes or is
\* interrupted, every interaction that has started ends: the interacting flag returns
\* to false with the pan count at 0 and onInteractionEnd invoked
C30_InteractionsEnd ==
    (/\ []<>(~gesture.pinch)
     /\ []<>(~gesture.pan)
     /\ []<>(gesture.panOnly # "active")
     /\ []<>(~Decaying))
    => (isInteracting ~> (~isInteracting /\ panGestureCount = 0 /\ ~interactions.open))

\* a pinch and an overlapping pan have ended, the pan's end was reported by its release
\* decay, and the one interaction they made up is over
C30_Witness ==
    /\ trace.op = "onPanEnded"
    /\ Count(trace.calls, "onInteractionEnd") = 1
    /\ ~isInteracting /\ ~interactions.open /\ panGestureCount = 0
    /\ gesture = [pinch |-> FALSE, pan |-> FALSE, panOnly |-> "idle"]
    /\ interactions.starts = 1
    /\ val["TRANSLATE_X"] # 0
    /\ ~Decaying

\* C31: with isDoubleTapEnabled false every interaction end performs reset(), whatever
\* the scale, keyed by the session id assigned when the interaction started (the id
\* changes at interaction starts only); no release decay and no moveIntoView() is ever
\* issued, and once an undisturbed reset() has settled the values are the identity.
\* With isDoubleTapEnabled true an interaction end performs moveIntoView(), and
\* reset() exactly if scale <= 1
C31_SettleAtInteractionEnd ==
    [][/\ interactionId' # interactionId => Count(trace'.calls, "onInteractionStart") = 1
       /\ IF cfg.isDoubleTapEnabled
          THEN Count(trace'.calls, "onInteractionEnd") = 1 =>
                  /\ Count(trace'.calls, "moveIntoView") = 1
                  /\ Count(trace'.calls, "reset") = IF val["SCALE"] <= 1 THEN 1 ELSE 0
          ELSE /\ Count(trace'.calls, "moveIntoView") = 0
               /\ ~Decaying'
               /\ Count(trace'.calls, "onInteractionEnd") = 1 =>
                     PerformsReset /\ ResetKeyedBy(interactionId)
               /\ (lastReset'.tag > 0 /\ lastReset'.clean /\ steps' = << >>) =>
                     val' = Identity]_vars
\* with double tap disabled, the end of a pinch that zoomed to 2 resets the view under
\* the id of the interaction
C31_Witness ==
    /\ trace.op = "onPinchEnded"
    /\ ~cfg.isDoubleTapEnabled
    /\ Count(trace.calls, "onInteractionEnd") = 1
    /\ Count(trace.calls, "reset") = 1
    /\ val["SCALE"] = 2
    /\ interactionId # ""
    /\ \E i \in DOMAIN steps :
          /\ steps[i].v = "SCALE" /\ steps[i].live
          /\ steps[i].anim.cb.type = "reset" /\ steps[i].anim.cb.id = interactionId

\* the calls handed to the JS thread before the step are still queued, in their order,
\* ahead of those the step hands over
KeepsQueued(q) == Len(q) <= Len(jsQueue') /\ SubSeq(jsQueue', 1, Len(q)) = q

\* C32: the step that opens an interaction invokes onInteractionStart, then assigns the
\* new session id, then invokes the onPinchStart / onPanStart of the gesture; the step
\* that closes one invokes the onPinchEnd / onPanEnd of the gesture, then settles
\* (reset, or moveIntoView), then invokes onInteractionEnd; the JS thread runs the
\* calls handed to it in the order they were handed over
C32_CallbackOrder ==
    [][LET c == trace'.calls
           Started == [onPinchStarted |-> "onPinchStart", onPanStarted |-> "onPanStart"]
           Ended == [onPinchEnded |-> "onPinchEnd", onPanEnded |-> "onPanEnd"]
       IN  /\ Count(c, "onInteractionStart") = 1 =>
                 /\ trace'.op \in DOMAIN Started
                 /\ c = << "onInteractionStart", "updateInteractionId",
                           Started[trace'.op] >>
           /\ Count(c, "onInteractionEnd") = 1 =>
                 /\ trace'.op \in DOMAIN Ended
                 /\ c \in { << Ended[trace'.op], "reset", "onInteractionEnd" >>,
                            << Ended[trace'.op], "moveIntoView", "onInteractionEnd" >>,
                            << Ended[trace'.op], "moveIntoView", "reset",
                               "onInteractionEnd" >> }
           /\ \/ KeepsQueued(jsQueue)
              \/ /\ jsQueue # << >>
                 /\ trace'.op = Head(jsQueue).fn
                 /\ KeepsQueued(Tail(jsQueue))]_vars
\* the end of a pan closes the first interaction with a reset, while calls handed over
\* later wait behind it
C32_Witness ==
    /\ trace.op = "onPanEnded"
    /\ trace.calls = << "onPanEnd", "reset", "onInteractionEnd" >>
    /\ interactions.starts = 1
    /\ jsQueue # << >>

=============================================================================
